---- MODULE Spec2Model ----
(***************************************************************************)
(* Model of ChromecastCommunication                                        *)
(* (modules/stream_out/chromecast/chromecast_communication.cpp).           *)
(*                                                                         *)
(* The object owns two request-id counters and a TLS stream.  Command      *)
(* builders format a payload, wrap it in a CastMessage (buildMessage) and  *)
(* write one length-prefixed frame (sendMessage).  receive() fills a       *)
(* buffer from the stream, polling when the read would block.              *)
(*                                                                         *)
(* A JSON payload is modelled as the sequence of its <<key, value>> pairs  *)
(* in the order the code streams them; numbers are formatted to text as    *)
(* operator<< does.  The transport (readv, poll, write), the allocator and *)
(* protobuf's ByteSize are the environment: their results are inputs.      *)
(***************************************************************************)
EXTENDS Integers, Sequences, FiniteSets, TLC

VARIABLES
    m_receiver_requestId,   \* unsigned, receiver-scope request id counter
    m_requestId,            \* unsigned, media-player-scope request id counter
    ndebug,                 \* TRUE iff the build defines NDEBUG (assert() compiled out)
    pc,                     \* "idle" | "read" | "poll" | "aborted" | "crashed"
    call,                   \* the most recent public call and its arguments
    sent,                   \* what that call built, wrote and returned
    rcv,                    \* locals and outcome of the most recent receive()
    recvIds,                \* requestIds embedded in receiver-scope envelopes, in order
    mediaIds,               \* requestIds embedded in media-player-scope envelopes, in order
    m_tls,                  \* "open" | "NULL": the TLS session pointer
    m_creds,                \* "live" | "deleted" | "NULL": the TLS credentials pointer
    life,                   \* object lifetime and the count of releases made so far
    media                   \* arguments and result of a GetMedia evaluation

vars == <<m_receiver_requestId, m_requestId, ndebug, pc, call, sent, rcv,
          recvIds, mediaIds, m_tls, m_creds, life, media>>

\* the members and records only the constructor, disconnect and GetMedia touch
owned == <<m_tls, m_creds, life, media>>

-----------------------------------------------------------------------------
(* Bounds *)

MaxCmds == 3          \* request-id carrying commands per run
MaxSize == 2          \* largest i_size handed to receive()
MaxTimeout == 1       \* largest i_timeout handed to receive()
MaxPolls == 2         \* would-block episodes per receive() call
MaxDisconnects == 2   \* explicit disconnect() calls per run

-----------------------------------------------------------------------------
(* Program constants *)

PACKET_HEADER_LEN == 4
VLC_SUCCESS == 0
VLC_EGENERIC == 0 - 1
VLC_ENOMEM == 0 - 2

NAMESPACE_DEVICEAUTH == "urn:x-cast:com.google.cast.tp.deviceauth"
NAMESPACE_HEARTBEAT == "urn:x-cast:com.google.cast.tp.heartbeat"
NAMESPACE_CONNECTION == "urn:x-cast:com.google.cast.tp.connection"
NAMESPACE_RECEIVER == "urn:x-cast:com.google.cast.receiver"
NAMESPACE_MEDIA == "urn:x-cast:com.google.cast.media"
DEFAULT_CHOMECAST_RECEIVER == "receiver-0"
APP_ID == "APP_ID"
PayloadType_STRING == "STRING"
PayloadType_BINARY == "BINARY"

-----------------------------------------------------------------------------
(* Input domains *)

NaN == 999                                  \* float NaN, compares false with everything
Destinations == {"", "app-1"}               \* destinationId arguments
SessionIds == {0, 7}                        \* mediaSessionId arguments
Volumes == {0 - 1, 0, 5, 10, 11, NaN}       \* f_volume arguments, in tenths
EnvelopeSizes == {300}                      \* results of msg.ByteSize()
Timeouts == 0 .. MaxTimeout
Sizes == 0 .. MaxSize

\* what vlc_tls_Write may return for a frame of n bytes: error, short, full
WriteResults(n) == {0 - 1, n - 1, n}

\* one outcome of ByteSize, the allocator and the transport write for a send;
\* when the allocation fails no write happens (i_ret is then unused)
SendEnvs ==
    UNION { { [i_size |-> z, nomem |-> FALSE, i_ret |-> r] :
                r \in WriteResults(PACKET_HEADER_LEN + z) } : z \in EnvelopeSizes }
    \cup { [i_size |-> z, nomem |-> TRUE, i_ret |-> 0] : z \in EnvelopeSizes }

-----------------------------------------------------------------------------
(* Helpers *)

NoCall == [name |-> "none", destinationId |-> "", mediaSessionId |-> 0,
           f_volume |-> 0]
NoSent == [msgs |-> <<>>, writes |-> <<>>, ret |-> <<>>, result |-> <<>>,
           crashed |-> FALSE]
NoRcv == [i_size0 |-> 0, i_size |-> 0, i_received |-> 0, i_timeout |-> 0,
          flag0 |-> FALSE, pb_timeout |-> FALSE, polls |-> 0, waited |-> 0,
          returned |-> FALSE, ret |-> 0, cause |-> "none",
          iov_base |-> 0, iov_len |-> 0]
NoLife == [obj |-> "unborn", closes |-> 0, deletes |-> 0, disconnects |-> 0,
           failedAt |-> "none", thrown |-> "none"]
NoMedia == [i_port |-> 0, mime |-> <<>>, p_meta |-> <<>>, out |-> <<>>,
            done |-> FALSE]

\* PostIncr with the increment forgotten
PostIncr_NoIncrement(x) == x

\* x++ on a request-id counter: the value after the increment.  The counters'
\* declared width is in chromecast.h; runs here stay far below any wrap.
PostIncr(x) == x + 1

\* value of a key in a payload (sequence of <<key, value>>), "" when absent
HasKey(payload, key) == \E i \in DOMAIN payload : payload[i][1] = key
Get(payload, key) ==
    IF HasKey(payload, key)
    THEN payload[CHOOSE i \in DOMAIN payload : payload[i][1] = key][2]
    ELSE ""

\* float comparisons: false whenever an operand is NaN
FLess(a, b) == a # NaN /\ b # NaN /\ a < b

\* operator<< on a float holding v tenths
FmtFloat(v) ==
    IF v = NaN THEN "nan"
    ELSE IF v % 10 = 0 THEN ToString(v \div 10)
    ELSE ToString(v \div 10) \o "." \o ToString(v % 10)

-----------------------------------------------------------------------------
(* sendMessage: frame the envelope and write it in one vlc_tls_Write.      *)
(* Returns the write attempted (if any) and the vlc error code.            *)

\* SetDWBE with the byte order reversed
SetDWBE_LittleEndian(n) ==
    << n % 256, (n \div 256) % 256, (n \div 65536) % 256, (n \div 16777216) % 256 >>

\* SetDWBE(p, n): the four bytes stored at p, most significant first
SetDWBE(n) ==
    << (n \div 16777216) % 256, (n \div 65536) % 256, (n \div 256) % 256, n % 256 >>

\* SerializeWithCachedSizesToArray: i_size bytes that encode msg
Serialized(msg, i_size) == [of |-> msg, len |-> i_size]

\* vlc_tls_Write(m_tls, ...) dereferences m_tls: with m_tls NULL the process
\* dies there (crashed), after the buffer was allocated and filled.
sendMessage(msg, env) ==
    IF env.nomem
    THEN [writes |-> <<>>, ret |-> VLC_ENOMEM, crashed |-> FALSE]
    ELSE IF m_tls = "NULL"
    THEN [writes |-> <<>>, ret |-> VLC_EGENERIC, crashed |-> TRUE]
    ELSE [writes |-> << [len |-> PACKET_HEADER_LEN + env.i_size,
                         i_size |-> env.i_size,
                         header |-> SetDWBE(env.i_size),
                         body |-> Serialized(msg, env.i_size),
                         i_ret |-> env.i_ret] >>,
          ret |-> IF env.i_ret = PACKET_HEADER_LEN + env.i_size
                  THEN VLC_SUCCESS ELSE VLC_EGENERIC,
          crashed |-> FALSE]

(* buildMessage: fill the CastMessage, call sendMessage and drop its       *)
(* return value (the function is void).                                    *)

buildMessage(namespace_, payload, destinationId, payloadType, env) ==
    LET msg == [protocol_version |-> "CASTV2_1_0",
                namespace_ |-> namespace_,
                payload_type |-> payloadType,
                source_id |-> "sender-vlc",
                destination_id |-> destinationId,
                payload |-> payload]
        s == sendMessage(msg, env)
    IN  [msgs |-> <<msg>>,        \* envelopes handed to sendMessage
         writes |-> s.writes,     \* vlc_tls_Write calls made
         ret |-> IF s.crashed THEN <<>> ELSE <<s.ret>>,  \* what sendMessage returned
         result |-> <<>>,         \* what the caller gets back: nothing (void)
         crashed |-> s.crashed]

(* assert(cond): aborts the process unless the build defines NDEBUG.       *)
AssertFails(cond) == ~ndebug /\ ~cond

(* pushMediaPlayerMessage: assert(!destinationId.empty()), then build.     *)
pushAborts(destinationId) == AssertFails(destinationId # "")

pushMediaPlayerMessage(destinationId, payload, env) ==
    buildMessage(NAMESPACE_MEDIA, payload, destinationId, PayloadType_STRING, env)

-----------------------------------------------------------------------------
Init ==
    /\ m_receiver_requestId = 0
    /\ m_requestId = 0
    /\ ndebug \in BOOLEAN
    /\ pc = "idle"
    /\ call = NoCall
    /\ sent = NoSent
    /\ rcv = NoRcv
    /\ recvIds = <<>>
    /\ mediaIds = <<>>
    /\ m_tls = "open"
    /\ m_creds = "live"
    /\ life = [NoLife EXCEPT !.obj = "alive"]
    /\ media = NoMedia

\* a public method may be entered on a live object when no call is in progress
CanCall == pc = "idle" /\ life.obj = "alive"

\* where control is after a send: the process is gone if the write crashed
AfterSend(s) == IF s.crashed THEN "crashed" ELSE "idle"
Budget == Len(recvIds) + Len(mediaIds) < MaxCmds

\* commands that carry no request id and take no assert; envs is the set of
\* outcomes the send may meet
PlainIn(envs, name, ns, payload, dest, ptype) ==
    /\ CanCall
    /\ \E env \in envs :
          sent' = buildMessage(ns, payload, dest, ptype, env)
    /\ call' = [NoCall EXCEPT !.name = name, !.destinationId = dest]
    /\ rcv' = NoRcv
    /\ pc' = AfterSend(sent')
    /\ UNCHANGED <<m_receiver_requestId, m_requestId, ndebug, recvIds, mediaIds, owned>>

Plain(name, ns, payload, dest, ptype) ==
    PlainIn(SendEnvs, name, ns, payload, dest, ptype)

msgAuth ==
    Plain("msgAuth", NAMESPACE_DEVICEAUTH, << <<"challenge", "">> >>,
          DEFAULT_CHOMECAST_RECEIVER, PayloadType_BINARY)

msgPing ==
    Plain("msgPing", NAMESPACE_HEARTBEAT, << <<"type", "PING">> >>,
          DEFAULT_CHOMECAST_RECEIVER, PayloadType_STRING)

msgPong ==
    Plain("msgPong", NAMESPACE_HEARTBEAT, << <<"type", "PONG">> >>,
          DEFAULT_CHOMECAST_RECEIVER, PayloadType_STRING)

msgConnect ==
    \E destinationId \in Destinations :
        Plain("msgConnect", NAMESPACE_CONNECTION, << <<"type", "CONNECT">> >>,
              destinationId, PayloadType_STRING)

msgReceiverClose ==
    \E destinationId \in Destinations :
        Plain("msgReceiverClose", NAMESPACE_CONNECTION, << <<"type", "CLOSE">> >>,
              destinationId, PayloadType_STRING)

-----------------------------------------------------------------------------
(* GetMedia: the media descriptor of a LOAD command.  A const char* is     *)
(* <<>> (NULL) or <<s>>; texts tested with strncmp are character tuples.   *)

NULL == <<>>
m_serverIp == "192.168.1.2"
MimeAudio == <<"a", "u", "d", "i", "o", "/", "m", "p", "3">>
MimeVideo == <<"v", "i", "d", "e", "o", "/", "m", "p", "4">>
ArtHttp == <<"h", "t", "t", "p", ":", "/", "/", "a">>
ArtFile == <<"f", "i", "l", "e", ":", "/", "/", "a">>

\* strncmp's result used without the comparison to 0
StrNCmpEq_Inverted(s, p) == ~(Len(s) >= Len(p) /\ SubSeq(s, 1, Len(p)) = p)

\* strncmp(s, p, strlen(p)) == 0
StrNCmpEq(s, p) == Len(s) >= Len(p) /\ SubSeq(s, 1, Len(p)) = p

vlc_meta_Get(p_meta, key) == p_meta[1][key]

\* the pair <<key, value>> when psz is not NULL, nothing otherwise
Field(key, psz) == IF psz # NULL THEN << <<key, psz[1]>> >> ELSE <<>>

\* the title resolution with the two fallbacks tried in the other order
ResolveTitle_ESFirst(p_meta) ==
    IF p_meta = NULL THEN NULL
    ELSE IF vlc_meta_Get(p_meta, "Title") # NULL THEN vlc_meta_Get(p_meta, "Title")
    ELSE IF vlc_meta_Get(p_meta, "ESNowPlaying") # NULL
         THEN vlc_meta_Get(p_meta, "ESNowPlaying")
    ELSE vlc_meta_Get(p_meta, "NowPlaying")

\* psz_title after the fallbacks: Title, else NowPlaying, else ESNowPlaying
ResolveTitle(p_meta) ==
    IF p_meta = NULL THEN NULL
    ELSE IF vlc_meta_Get(p_meta, "Title") # NULL THEN vlc_meta_Get(p_meta, "Title")
    ELSE IF vlc_meta_Get(p_meta, "NowPlaying") # NULL
         THEN vlc_meta_Get(p_meta, "NowPlaying")
    ELSE vlc_meta_Get(p_meta, "ESNowPlaying")

\* the music lookup made after the title fallbacks instead of before them
MusicLookup_AfterFallback(b_music, p_meta) ==
    p_meta # NULL /\ b_music /\ ResolveTitle(p_meta) # NULL

\* if( b_music && psz_title ): tested while psz_title is still the explicit Title
MusicLookup(b_music, p_meta) ==
    p_meta # NULL /\ b_music /\ vlc_meta_Get(p_meta, "Title") # NULL

GetMedia(i_port, mime, p_meta) ==
    LET b_music == StrNCmpEq(mime, <<"a", "u", "d", "i", "o">>)
        psz_artwork == IF p_meta # NULL THEN vlc_meta_Get(p_meta, "ArtworkURL") ELSE NULL
        lookup == MusicLookup(b_music, p_meta)
        psz_artist == IF lookup THEN vlc_meta_Get(p_meta, "Artist") ELSE NULL
        psz_album == IF lookup THEN vlc_meta_Get(p_meta, "Album") ELSE NULL
        psz_albumartist == IF lookup THEN vlc_meta_Get(p_meta, "AlbumArtist") ELSE NULL
        psz_tracknumber == IF lookup THEN vlc_meta_Get(p_meta, "TrackNumber") ELSE NULL
        psz_discnumber == IF lookup THEN vlc_meta_Get(p_meta, "DiscNumber") ELSE NULL
        psz_title == ResolveTitle(p_meta)
        music ==
            IF b_music
            THEN Field("artist", psz_artist) \o Field("album", psz_album)
                 \o Field("albumArtist", psz_albumartist)
                 \o Field("trackNumber", psz_tracknumber)
                 \o Field("discNumber", psz_discnumber)
            ELSE <<>>
        images ==
            IF psz_artwork # NULL /\ StrNCmpEq(psz_artwork[1], <<"h", "t", "t", "p">>)
            THEN << <<"images", << <<"url", psz_artwork[1]>> >> >> >>
            ELSE <<>>
        metadata ==
            IF p_meta # NULL /\ psz_title # NULL
            THEN << <<"metadata",
                      << <<"metadataType", IF b_music THEN "3" ELSE "0">>,
                         <<"title", psz_title[1]>> >> \o music \o images>> >>
            ELSE <<>>
        chromecast_url == "http://" \o m_serverIp \o ":" \o ToString(i_port) \o "/stream"
    IN  metadata \o << <<"contentId", chromecast_url>>,
                       <<"streamType", "LIVE">>,
                       <<"contentType", mime>> >>

NoMeta == [Title |-> NULL, ArtworkURL |-> NULL, Artist |-> NULL, Album |-> NULL,
           AlbumArtist |-> NULL, TrackNumber |-> NULL, DiscNumber |-> NULL,
           NowPlaying |-> NULL, ESNowPlaying |-> NULL]

\* p_meta arguments of msgPlayerLoad
LoadMetas ==
    { NULL,
      << [NoMeta EXCEPT !.Title = <<"Song">>, !.Artist = <<"Artist">>,
                        !.ArtworkURL = <<ArtHttp>>] >>,
      << [NoMeta EXCEPT !.NowPlaying = <<"Radio">>, !.Artist = <<"Artist">>,
                        !.ArtworkURL = <<ArtFile>>] >> }
Mimes == {MimeAudio, MimeVideo}
Ports == {8010}
SeekTimes == {"12.5"}

\* inputs of the GetMedia evaluations: every combination of present and
\* absent metadata, and MIME types around the "audio" prefix
MimeShort == <<"a", "u", "d", "i">>
MimeAudioOther == <<"a", "u", "d", "i", "o", "b", "o", "o", "k">>
MediaMimes == {MimeAudio, MimeVideo, MimeShort, MimeAudioOther}
Opt(v) == {NULL, <<v>>}
MediaMetas ==
    {NULL} \cup
    { <<m>> : m \in [Title : Opt("Song"), ArtworkURL : {NULL, <<ArtHttp>>, <<ArtFile>>},
                     Artist : Opt("Artist"), Album : Opt("Album"),
                     AlbumArtist : Opt("Band"), TrackNumber : Opt("4"),
                     DiscNumber : Opt("1"), NowPlaying : Opt("Radio"),
                     ESNowPlaying : Opt("Jingle")] }

InitMedia ==
    /\ m_receiver_requestId = 0
    /\ m_requestId = 0
    /\ ndebug \in BOOLEAN
    /\ pc = "idle"
    /\ call = NoCall
    /\ sent = NoSent
    /\ rcv = NoRcv
    /\ recvIds = <<>>
    /\ mediaIds = <<>>
    /\ m_tls = "open"
    /\ m_creds = "live"
    /\ life = [NoLife EXCEPT !.obj = "alive"]
    /\ media \in { [NoMedia EXCEPT !.i_port = i_port, !.mime = mime, !.p_meta = p_meta] :
                      i_port \in Ports, mime \in MediaMimes, p_meta \in MediaMetas }

\* one evaluation of GetMedia on the arguments held in media
GetMediaCall ==
    /\ CanCall
    /\ ~media.done
    /\ media' = [media EXCEPT !.out = GetMedia(media.i_port, media.mime, media.p_meta),
                              !.done = TRUE]
    /\ UNCHANGED <<m_receiver_requestId, m_requestId, ndebug, pc, call, sent, rcv,
                   recvIds, mediaIds, m_tls, m_creds, life>>

NextMedia == GetMediaCall

SpecMedia == InitMedia /\ [][NextMedia]_vars

-----------------------------------------------------------------------------
(* Receiver-scope commands: the payload embeds m_receiver_requestId++.     *)

ReceiverCmd(name, payload) ==
    /\ CanCall
    /\ Budget
    /\ m_receiver_requestId' = PostIncr(m_receiver_requestId)
    /\ \E env \in SendEnvs :
          sent' = buildMessage(NAMESPACE_RECEIVER, payload,
                               DEFAULT_CHOMECAST_RECEIVER, PayloadType_STRING, env)
    /\ recvIds' = Append(recvIds, Get(sent'.msgs[1].payload, "requestId"))
    /\ call' = [NoCall EXCEPT !.name = name,
                              !.destinationId = DEFAULT_CHOMECAST_RECEIVER]
    /\ rcv' = NoRcv
    /\ pc' = AfterSend(sent')
    /\ UNCHANGED <<m_requestId, ndebug, mediaIds, owned>>

msgReceiverGetStatus ==
    ReceiverCmd("msgReceiverGetStatus",
                << <<"type", "GET_STATUS">>,
                   <<"requestId", ToString(m_receiver_requestId)>> >>)

msgReceiverLaunchApp ==
    ReceiverCmd("msgReceiverLaunchApp",
                << <<"type", "LAUNCH">>,
                   <<"appId", APP_ID>>,
                   <<"requestId", ToString(m_receiver_requestId)>> >>)

-----------------------------------------------------------------------------
(* Media-player-scope commands.  entryOk is the assert at the top of the   *)
(* builder (TRUE when it has none); the payload embeds m_requestId++ and   *)
(* goes through pushMediaPlayerMessage, which asserts the destination.     *)

Abort(c) ==
    /\ pc' = "aborted"
    /\ call' = c
    /\ sent' = NoSent
    /\ rcv' = NoRcv

MediaCmd(c, entryOk, payload) ==
    /\ CanCall
    /\ Budget
    /\ IF AssertFails(entryOk)
       THEN /\ Abort(c)
            /\ UNCHANGED <<m_requestId, mediaIds>>
       ELSE /\ m_requestId' = PostIncr(m_requestId)
            /\ IF pushAborts(c.destinationId)
               THEN /\ Abort(c)
                    /\ UNCHANGED mediaIds
               ELSE /\ \E env \in SendEnvs :
                          sent' = pushMediaPlayerMessage(c.destinationId, payload, env)
                    /\ mediaIds' = Append(mediaIds,
                                          Get(sent'.msgs[1].payload, "requestId"))
                    /\ call' = c
                    /\ rcv' = NoRcv
                    /\ pc' = AfterSend(sent')
    /\ UNCHANGED <<m_receiver_requestId, ndebug, recvIds, owned>>

msgPlayerGetStatus ==
    \E destinationId \in Destinations :
        MediaCmd([NoCall EXCEPT !.name = "msgPlayerGetStatus",
                                !.destinationId = destinationId],
                 TRUE,
                 << <<"type", "GET_STATUS">>,
                    <<"requestId", ToString(m_requestId)>> >>)

msgPlayerLoad ==
    \E destinationId \in Destinations, i_port \in Ports, mime \in Mimes,
       p_meta \in LoadMetas :
        MediaCmd([NoCall EXCEPT !.name = "msgPlayerLoad",
                                !.destinationId = destinationId],
                 TRUE,
                 << <<"type", "LOAD">>,
                    <<"media", GetMedia(i_port, mime, p_meta)>>,
                    <<"autoplay", "false">>,
                    <<"requestId", ToString(m_requestId)>> >>)

\* PLAY, STOP and PAUSE share one shape
SessionPayload(type, mediaSessionId) ==
    << <<"type", type>>,
       <<"mediaSessionId", ToString(mediaSessionId)>>,
       <<"requestId", ToString(m_requestId)>> >>

SessionCmd(name, type) ==
    \E destinationId \in Destinations, mediaSessionId \in SessionIds :
        MediaCmd([NoCall EXCEPT !.name = name,
                                !.destinationId = destinationId,
                                !.mediaSessionId = mediaSessionId],
                 mediaSessionId # 0,
                 SessionPayload(type, mediaSessionId))

msgPlayerPlay == SessionCmd("msgPlayerPlay", "PLAY")
msgPlayerStop == SessionCmd("msgPlayerStop", "STOP")
msgPlayerPause == SessionCmd("msgPlayerPause", "PAUSE")

msgPlayerSeek ==
    \E destinationId \in Destinations, mediaSessionId \in SessionIds,
       currentTime \in SeekTimes :
        MediaCmd([NoCall EXCEPT !.name = "msgPlayerSeek",
                                !.destinationId = destinationId,
                                !.mediaSessionId = mediaSessionId],
                 mediaSessionId # 0,
                 << <<"type", "SEEK">>,
                    <<"currentTime", currentTime>>,
                    <<"mediaSessionId", ToString(mediaSessionId)>>,
                    <<"requestId", ToString(m_requestId)>> >>)

\* VolumeOutOfRange with the endpoints excluded from the accepted range
VolumeOutOfRange_Open(f_volume) == ~FLess(0, f_volume) \/ ~FLess(f_volume, 10)

\* f_volume < 0.0 || f_volume > 1.0 (volumes are in tenths)
VolumeOutOfRange(f_volume) == FLess(f_volume, 0) \/ FLess(10, f_volume)

\* msgPlayerSetVolume taking its request id before the range test
msgPlayerSetVolume_CountsDropped ==
    \E destinationId \in Destinations, mediaSessionId \in SessionIds,
       f_volume \in Volumes, b_mute \in BOOLEAN :
        LET c == [NoCall EXCEPT !.name = "msgPlayerSetVolume",
                                !.destinationId = destinationId,
                                !.mediaSessionId = mediaSessionId,
                                !.f_volume = f_volume]
        IN  IF ~AssertFails(mediaSessionId # 0) /\ VolumeOutOfRange(f_volume)
            THEN /\ CanCall
                 /\ Budget
                 /\ call' = c
                 /\ sent' = NoSent
                 /\ rcv' = NoRcv
                 /\ m_requestId' = PostIncr(m_requestId)
                 /\ UNCHANGED <<m_receiver_requestId, ndebug, pc,
                                recvIds, mediaIds, owned>>
            ELSE MediaCmd(c, mediaSessionId # 0,
                          << <<"type", "SET_VOLUME">>,
                             <<"volume", << <<"level", FmtFloat(f_volume)>>,
                                            <<"muted", IF b_mute THEN "true"
                                                       ELSE "false">> >> >>,
                             <<"mediaSessionId", ToString(mediaSessionId)>>,
                             <<"requestId", ToString(m_requestId)>> >>)

msgPlayerSetVolume ==
    \E destinationId \in Destinations, mediaSessionId \in SessionIds,
       f_volume \in Volumes, b_mute \in BOOLEAN :
        LET c == [NoCall EXCEPT !.name = "msgPlayerSetVolume",
                                !.destinationId = destinationId,
                                !.mediaSessionId = mediaSessionId,
                                !.f_volume = f_volume]
        IN  IF ~AssertFails(mediaSessionId # 0) /\ VolumeOutOfRange(f_volume)
            THEN \* silently dropped: return before anything is built
                 /\ CanCall
                 /\ call' = c
                 /\ sent' = NoSent
                 /\ rcv' = NoRcv
                 /\ UNCHANGED <<m_receiver_requestId, m_requestId, ndebug, pc,
                                recvIds, mediaIds, owned>>
            ELSE MediaCmd(c, mediaSessionId # 0,
                          << <<"type", "SET_VOLUME">>,
                             <<"volume", << <<"level", FmtFloat(f_volume)>>,
                                            <<"muted", IF b_mute THEN "true"
                                                       ELSE "false">> >> >>,
                             <<"mediaSessionId", ToString(mediaSessionId)>>,
                             <<"requestId", ToString(m_requestId)>> >>)

-----------------------------------------------------------------------------
(* receive(p_data, i_size, i_timeout, pb_timeout): the do-while loop, one  *)
(* action per result of readv and of vlc_poll_i11e.  rcv holds the locals; *)
(* pb_timeout is the caller's flag, flag0 its value on entry; waited is    *)
(* the time spent inside poll; cause records which event ended the call.   *)

\* (polls only bounds the would-block episodes of a running call; it is
\* cleared when the call returns)
Return(r, value, why) ==
    [r EXCEPT !.returned = TRUE, !.ret = value, !.cause = why, !.polls = 0]

\* receive's entry with the flag cleared first
receive_ClearsFlag ==
    /\ CanCall
    /\ \E i_size \in Sizes, i_timeout \in Timeouts, flag \in BOOLEAN :
          IF m_tls = "NULL"
          THEN rcv' = NoRcv /\ pc' = "crashed"
          ELSE /\ rcv' = [NoRcv EXCEPT !.i_size0 = i_size, !.i_size = i_size,
                                       !.i_timeout = i_timeout,
                                       !.flag0 = flag, !.pb_timeout = FALSE,
                                       !.iov_base = 0, !.iov_len = i_size]
               /\ pc' = "read"
    /\ call' = [NoCall EXCEPT !.name = "receive"]
    /\ sent' = NoSent
    /\ UNCHANGED <<m_receiver_requestId, m_requestId, ndebug, recvIds, mediaIds, owned>>

\* entry: vlc_tls_GetFD(m_tls) dereferences m_tls (the process dies when it is
\* NULL); iov covers the whole buffer
receive ==
    /\ CanCall
    /\ \E i_size \in Sizes, i_timeout \in Timeouts, flag \in BOOLEAN :
          IF m_tls = "NULL"
          THEN rcv' = NoRcv /\ pc' = "crashed"
          ELSE /\ rcv' = [NoRcv EXCEPT !.i_size0 = i_size, !.i_size = i_size,
                                       !.i_timeout = i_timeout,
                                       !.flag0 = flag, !.pb_timeout = flag,
                                       !.iov_base = 0, !.iov_len = i_size]
               /\ pc' = "read"
    /\ call' = [NoCall EXCEPT !.name = "receive"]
    /\ sent' = NoSent
    /\ UNCHANGED <<m_receiver_requestId, m_requestId, ndebug, recvIds, mediaIds, owned>>

RcvFrame == UNCHANGED <<m_receiver_requestId, m_requestId, ndebug, call, sent,
                        recvIds, mediaIds, owned>>

\* ReadData with iov_len left at the size of the whole buffer
ReadData_StaleIovLen ==
    /\ pc = "read"
    /\ \E i_ret \in 1 .. rcv.i_size :
          LET r == [rcv EXCEPT !.i_size = @ - i_ret, !.i_received = @ + i_ret,
                               !.iov_base = @ + i_ret]
          IN  IF r.i_size > 0
              THEN rcv' = r /\ pc' = "read"
              ELSE rcv' = Return(r, r.i_received, "complete") /\ pc' = "idle"
    /\ RcvFrame

\* readv(&iov) returned i_ret > 0 bytes, at most iov_len, stored at iov_base
ReadData ==
    /\ pc = "read"
    /\ \E i_ret \in 1 .. rcv.iov_len :
          LET r == [rcv EXCEPT !.i_size = @ - i_ret, !.i_received = @ + i_ret,
                               !.iov_base = @ + i_ret,
                               !.iov_len = rcv.i_size - i_ret]
          IN  IF r.i_size > 0
              THEN rcv' = r /\ pc' = "read"
              ELSE rcv' = Return(r, r.i_received, "complete") /\ pc' = "idle"
    /\ RcvFrame

\* ReadClosed returning the bytes accumulated so far instead of -1
ReadClosed_ReturnsCount ==
    /\ pc = "read"
    /\ rcv' = Return(rcv, rcv.i_received, "closed")
    /\ pc' = "idle"
    /\ RcvFrame

\* readv returned 0: the peer closed the stream
ReadClosed ==
    /\ pc = "read"
    /\ rcv' = Return(rcv, 0 - 1, "closed")
    /\ pc' = "idle"
    /\ RcvFrame

\* readv returned < 0 with errno other than EAGAIN
ReadError ==
    /\ pc = "read"
    /\ rcv' = Return(rcv, 0 - 1, "ioerror")
    /\ pc' = "idle"
    /\ RcvFrame

\* readv returned < 0 with errno EAGAIN: go and poll
ReadWouldBlock ==
    /\ pc = "read"
    /\ rcv.polls < MaxPolls
    /\ rcv' = [rcv EXCEPT !.polls = @ + 1]
    /\ pc' = "poll"
    /\ RcvFrame

\* vlc_poll_i11e returned < 0
PollFail ==
    /\ pc = "poll"
    /\ \E w \in 0 .. rcv.i_timeout :
          rcv' = Return([rcv EXCEPT !.waited = @ + w], 0 - 1, "pollfail")
    /\ pc' = "idle"
    /\ RcvFrame

\* PollTimeout reported as an error, the flag left alone
PollTimeout_AsError ==
    /\ pc = "poll"
    /\ rcv' = Return([rcv EXCEPT !.waited = @ + rcv.i_timeout], 0 - 1, "expired")
    /\ pc' = "idle"
    /\ RcvFrame

\* PollTimeout forgetting the bytes already accumulated
PollTimeout_DropsPartial ==
    /\ pc = "poll"
    /\ rcv' = Return([rcv EXCEPT !.waited = @ + rcv.i_timeout,
                                 !.pb_timeout = TRUE],
                     0, "expired")
    /\ pc' = "idle"
    /\ RcvFrame

\* vlc_poll_i11e returned 0: i_timeout elapsed with nothing to read
PollTimeout ==
    /\ pc = "poll"
    /\ rcv' = Return([rcv EXCEPT !.waited = @ + rcv.i_timeout,
                                 !.pb_timeout = TRUE],
                     rcv.i_received, "expired")
    /\ pc' = "idle"
    /\ RcvFrame

\* vlc_poll_i11e returned > 0 after w <= i_timeout; assert(revents & POLLIN);
\* continue re-tests the loop condition i_size > 0
PollReady ==
    /\ pc = "poll"
    /\ \E w \in 0 .. rcv.i_timeout, pollin \in BOOLEAN :
          LET r == [rcv EXCEPT !.waited = @ + w]
          IN  IF AssertFails(pollin)
              THEN rcv' = r /\ pc' = "aborted"
              ELSE IF r.i_size > 0
              THEN rcv' = r /\ pc' = "read"
              ELSE rcv' = Return(r, r.i_received, "complete") /\ pc' = "idle"
    /\ RcvFrame

-----------------------------------------------------------------------------
(* Lifetime: constructor, disconnect, destructor.                          *)

\* disconnect's body with m_tls left pointing at the closed session
disconnectBody_KeepsPointer(tls, creds, l) ==
    IF tls # "NULL"
    THEN [tls |-> tls, creds |-> "deleted",
          life |-> [l EXCEPT !.closes = @ + 1, !.deletes = @ + 1]]
    ELSE [tls |-> tls, creds |-> creds, life |-> l]

\* if ( m_tls != NULL ) { vlc_tls_Close(m_tls); vlc_tls_Delete(m_creds); m_tls = NULL; }
disconnectBody(tls, creds, l) ==
    IF tls # "NULL"
    THEN [tls |-> "NULL", creds |-> "deleted",
          life |-> [l EXCEPT !.closes = @ + 1, !.deletes = @ + 1]]
    ELSE [tls |-> tls, creds |-> creds, life |-> l]

LifeFrame ==
    /\ sent' = NoSent
    /\ rcv' = NoRcv
    /\ UNCHANGED <<m_receiver_requestId, m_requestId, ndebug, pc, recvIds,
                   mediaIds, media>>

disconnect ==
    /\ CanCall
    /\ life.disconnects < MaxDisconnects
    /\ LET d == disconnectBody(m_tls, m_creds, life)
       IN  /\ m_tls' = d.tls
           /\ m_creds' = d.creds
           /\ life' = [d.life EXCEPT !.disconnects = @ + 1]
    /\ call' = [NoCall EXCEPT !.name = "disconnect"]
    /\ LifeFrame

\* ~ChromecastCommunication: disconnect(), then the object is gone
Destructor ==
    /\ CanCall
    /\ LET d == disconnectBody(m_tls, m_creds, life)
       IN  /\ m_tls' = d.tls
           /\ m_creds' = d.creds
           /\ life' = [d.life EXCEPT !.obj = "destroyed"]
    /\ call' = [NoCall EXCEPT !.name = "~ChromecastCommunication"]
    /\ LifeFrame

\* the state before the constructor runs: the initialiser list values
InitLife ==
    /\ m_receiver_requestId = 0
    /\ m_requestId = 0
    /\ ndebug \in BOOLEAN
    /\ pc = "idle"
    /\ call = NoCall
    /\ sent = NoSent
    /\ rcv = NoRcv
    /\ recvIds = <<>>
    /\ mediaIds = <<>>
    /\ m_tls = "NULL"
    /\ m_creds = "NULL"
    /\ life = NoLife
    /\ media = NoMedia

\* where vlc_tls_ClientCreate, vlc_tls_SocketOpenTLS and net_GetSockAddress
\* may stop the constructor
CtorOutcomes == {"creds", "session", "address", "ok"}

\* the constructor body; a throw leaves no object, so no destructor runs
Constructor ==
    /\ life.obj = "unborn"
    /\ pc = "idle"
    /\ \E outcome \in CtorOutcomes :
          CASE outcome = "creds" ->
                 /\ m_creds' = "NULL"
                 /\ m_tls' = "NULL"
                 /\ life' = [life EXCEPT !.obj = "failed", !.failedAt = outcome,
                                         !.thrown = "Failed to create TLS client"]
            [] outcome = "session" ->
                 /\ m_creds' = "deleted"
                 /\ m_tls' = "NULL"
                 /\ life' = [life EXCEPT !.obj = "failed", !.failedAt = outcome,
                                         !.deletes = @ + 1,
                                         !.thrown = "Failed to create client session"]
            [] outcome = "address" ->
                 /\ m_creds' = "live"
                 /\ m_tls' = "open"
                 /\ life' = [life EXCEPT !.obj = "failed", !.failedAt = outcome,
                                         !.thrown = "Cannot get local IP address"]
            [] outcome = "ok" ->
                 /\ m_creds' = "live"
                 /\ m_tls' = "open"
                 /\ life' = [life EXCEPT !.obj = "alive"]
    /\ call' = [NoCall EXCEPT !.name = "ChromecastCommunication"]
    /\ LifeFrame

-----------------------------------------------------------------------------
(* Frames of many sizes: msgPing met by every envelope size in FrameSizes. *)

FrameSizes ==
    (0 .. 20) \cup {127, 128, 255, 256, 257, 300, 65535, 65536, 65537,
                    16777215, 16777216, 16777217, 305419896}
FrameEnvs ==
    UNION { { [i_size |-> z, nomem |-> FALSE, i_ret |-> r] :
                r \in WriteResults(PACKET_HEADER_LEN + z) } : z \in FrameSizes }

msgPingFramed ==
    PlainIn(FrameEnvs, "msgPing", NAMESPACE_HEARTBEAT, << <<"type", "PING">> >>,
            DEFAULT_CHOMECAST_RECEIVER, PayloadType_STRING)

NextFrame == msgPingFramed

SpecFrame == Init /\ [][NextFrame]_vars

-----------------------------------------------------------------------------
Next ==
    \/ msgAuth
    \/ msgPing
    \/ msgPong
    \/ msgConnect
    \/ msgReceiverClose
    \/ msgReceiverGetStatus
    \/ msgReceiverLaunchApp
    \/ msgPlayerGetStatus
    \/ msgPlayerLoad
    \/ msgPlayerPlay
    \/ msgPlayerStop
    \/ msgPlayerPause
    \/ msgPlayerSetVolume
    \/ msgPlayerSeek
    \/ receive
    \/ ReadData
    \/ ReadClosed
    \/ ReadError
    \/ ReadWouldBlock
    \/ PollFail
    \/ PollTimeout
    \/ PollReady
    \/ disconnect
    \/ Destructor

Spec == Init /\ [][Next]_vars

\* the same object followed from before its construction
NextLife == Constructor \/ Next

SpecLife == InitLife /\ [][NextLife]_vars

-----------------------------------------------------------------------------
(* Properties *)

ReceiveReturned == call.name = "receive" /\ pc = "idle" /\ rcv.returned

\* C1: the k-th receiver-scope envelope embeds requestId k-1 and the k-th
\* media-player-scope envelope embeds requestId k-1, whatever the interleaving
\* of the two scopes: N and M commands yield the ids 0..N-1 and 0..M-1.
C1_RequestIdsPerScope ==
    /\ \A k \in DOMAIN recvIds : recvIds[k] = ToString(k - 1)
    /\ \A k \in DOMAIN mediaIds : mediaIds[k] = ToString(k - 1)

C1_Witness ==
    /\ Len(recvIds) >= 2
    /\ Len(mediaIds) >= 1
    /\ call.name = "msgReceiverLaunchApp"
    /\ m_requestId = Len(mediaIds)

\* C2: when readv reports an orderly close before i_size bytes were
\* accumulated, receive() returns -1 whatever was accumulated, and does not
\* raise the timeout flag.
C2_CloseIsHardError ==
    (ReceiveReturned /\ rcv.cause = "closed" /\ rcv.i_received < rcv.i_size0)
        => (rcv.ret = 0 - 1 /\ rcv.pb_timeout = rcv.flag0)

C2_Witness ==
    /\ ReceiveReturned
    /\ rcv.cause = "closed"
    /\ rcv.i_received > 0
    /\ rcv.i_received < rcv.i_size0
    /\ rcv.ret = 0 - 1

\* C3: when the readiness wait expires with zero bytes accumulated, receive()
\* returns 0 with the timeout flag set, not -1.
C3_IdleTimeout ==
    (ReceiveReturned /\ rcv.cause = "expired" /\ rcv.i_received = 0)
        => (rcv.ret = 0 /\ rcv.pb_timeout = TRUE)

C3_Witness ==
    /\ ReceiveReturned
    /\ rcv.cause = "expired"
    /\ rcv.i_received = 0
    /\ rcv.i_size0 > 0
    /\ rcv.flag0 = FALSE
    /\ rcv.pb_timeout = TRUE

\* C4: after receive() the caller sees the timeout flag raised only if a
\* readiness wait expired during the call, sees -1 only if a read error, a
\* poll failure or a peer close occurred, and never sees both.
C4_OutcomeFaithful ==
    ReceiveReturned =>
        /\ rcv.pb_timeout => rcv.cause = "expired"
        /\ rcv.ret = 0 - 1 => rcv.cause \in {"ioerror", "pollfail", "closed"}
        /\ ~(rcv.ret = 0 - 1 /\ rcv.pb_timeout)

\* C5: when k bytes, 0 < k < i_size, were accumulated and a later readiness
\* wait expires, receive() returns k with the timeout flag set.
C5_PartialTimeout ==
    (ReceiveReturned /\ rcv.cause = "expired"
        /\ rcv.i_received > 0 /\ rcv.i_received < rcv.i_size0)
        => (rcv.ret = rcv.i_received /\ rcv.pb_timeout = TRUE)

C5_Witness ==
    /\ ReceiveReturned
    /\ rcv.cause = "expired"
    /\ rcv.i_received = 1
    /\ rcv.i_size0 = 2
    /\ rcv.ret = 1

\* C6: within one receive() call the time spent waiting for readiness, summed
\* over all would-block episodes, never exceeds i_timeout.
C6_WaitWithinDeadline ==
    call.name = "receive" => rcv.waited <= rcv.i_timeout

\* C7: whenever a command builder's write fails or is short, the builder's
\* caller is told of the failure.
C7_SendFailureReported ==
    (sent.ret # <<>> /\ sent.ret[1] # VLC_SUCCESS) => sent.result = sent.ret

\* C8: msgPlayerPlay/Stop/Pause called with mediaSessionId = 0 builds no
\* envelope and writes no frame.
C8_ZeroSessionRejected ==
    (call.name \in {"msgPlayerPlay", "msgPlayerStop", "msgPlayerPause"}
        /\ call.mediaSessionId = 0)
        => (sent.msgs = <<>> /\ sent.writes = <<>>)

\* C9: no envelope in the media-player namespace with an empty
\* destination_id is handed to the send path.
C9_MediaHasDestination ==
    \A i \in DOMAIN sent.msgs :
        sent.msgs[i].namespace_ = NAMESPACE_MEDIA
            => sent.msgs[i].destination_id # ""

\* C10: msgPlayerSetVolume with a non-zero session and a non-empty
\* destination produces exactly one SET_VOLUME envelope when the volume is in
\* [0.0, 1.0] and nothing when it is below 0.0 or above 1.0.
C10_VolumeRange ==
    (call.name = "msgPlayerSetVolume" /\ call.mediaSessionId # 0
        /\ call.destinationId # "" /\ call.f_volume # NaN)
        => IF 0 <= call.f_volume /\ call.f_volume <= 10
           THEN /\ Len(sent.msgs) = 1
                /\ Get(sent.msgs[1].payload, "type") = "SET_VOLUME"
                /\ sent.msgs[1].namespace_ = NAMESPACE_MEDIA
           ELSE sent.msgs = <<>> /\ sent.writes = <<>>

C10_Witness ==
    /\ call.name = "msgPlayerSetVolume"
    /\ call.mediaSessionId # 0
    /\ call.destinationId # ""
    /\ call.f_volume = 10
    /\ Len(sent.msgs) = 1
    /\ Get(Get(sent.msgs[1].payload, "volume"), "level") = "1"

\* C11: over any sequence of disconnect() calls followed by destruction the
\* session is closed once and the credentials are deleted once; once m_tls is
\* NULL a further call releases nothing.
C11_DisconnectOnce ==
    /\ life.closes <= 1
    /\ life.deletes <= 1
    /\ (life.disconnects >= 1 \/ life.obj = "destroyed")
         => (life.closes = 1 /\ life.deletes = 1 /\ m_tls = "NULL"
             /\ m_creds = "deleted")

C11_Witness ==
    /\ life.obj = "destroyed"
    /\ life.disconnects = 2
    /\ life.closes = 1
    /\ life.deletes = 1

\* big-endian value of a 4-byte header
GetDWBE(h) == h[1] * 16777216 + h[2] * 65536 + h[3] * 256 + h[4]

\* C12: the one write sendMessage makes is 4 + n bytes long, n the envelope's
\* serialized size: 4 bytes that read big-endian as n, then the n bytes of the
\* serialized envelope.
C12_FrameLayout ==
    /\ Len(sent.writes) <= 1
    /\ \A i \in DOMAIN sent.writes :
          LET w == sent.writes[i]
          IN  /\ Len(w.header) = PACKET_HEADER_LEN
              /\ \A j \in 1 .. 4 : w.header[j] \in 0 .. 255
              /\ GetDWBE(w.header) = w.body.len
              /\ w.body.of = sent.msgs[1]
              /\ w.len = 4 + w.body.len

C12_Witness ==
    /\ Len(sent.writes) = 1
    /\ sent.writes[1].body.len = 305419896
    /\ sent.writes[1].header = <<18, 52, 86, 120>>
    /\ sent.writes[1].i_ret = sent.writes[1].len

\* reading the arguments and the result of a GetMedia evaluation
BeginsWithAudio(mime) ==
    /\ Len(mime) >= 5
    /\ mime[1] = "a" /\ mime[2] = "u" /\ mime[3] = "d" /\ mime[4] = "i" /\ mime[5] = "o"
MetaHas(key) == media.p_meta # NULL /\ media.p_meta[1][key] # NULL
TitleAvailable == MetaHas("Title") \/ MetaHas("NowPlaying") \/ MetaHas("ESNowPlaying")
MetadataBlock ==
    IF HasKey(media.out, "metadata") THEN Get(media.out, "metadata") ELSE <<>>
MusicFields == {"artist", "album", "albumArtist", "trackNumber", "discNumber"}

\* C13: metadataType is "3" exactly for a MIME type that begins with "audio"
\* and "0" otherwise; a music-only field appears only for an audio MIME with
\* a resolved title; with an explicit title and an artist, audio carries the
\* artist field and non-audio does not.
C13_MusicFields ==
    media.done =>
        /\ HasKey(media.out, "metadata") =>
              Get(MetadataBlock, "metadataType")
                  = (IF BeginsWithAudio(media.mime) THEN "3" ELSE "0")
        /\ \A f \in MusicFields :
              HasKey(MetadataBlock, f) => (BeginsWithAudio(media.mime) /\ TitleAvailable)
        /\ (MetaHas("Title") /\ MetaHas("Artist")) =>
              IF BeginsWithAudio(media.mime)
              THEN Get(MetadataBlock, "artist") = media.p_meta[1]["Artist"][1]
              ELSE ~HasKey(MetadataBlock, "artist")

C13_Witness ==
    /\ media.done
    /\ media.mime = MimeAudio
    /\ MetaHas("Title")
    /\ Get(MetadataBlock, "metadataType") = "3"
    /\ Get(MetadataBlock, "artist") = "Artist"

\* C14: the title is the explicit title, else "now playing", else
\* "elementary-stream now playing"; the metadata block is there exactly when
\* one of them is; without it the descriptor is contentId, streamType "LIVE"
\* and contentType alone.
C14_TitleResolution ==
    media.done =>
        /\ HasKey(media.out, "metadata") <=> TitleAvailable
        /\ TitleAvailable =>
              Get(MetadataBlock, "title") =
                  (IF MetaHas("Title") THEN media.p_meta[1]["Title"][1]
                   ELSE IF MetaHas("NowPlaying") THEN media.p_meta[1]["NowPlaying"][1]
                   ELSE media.p_meta[1]["ESNowPlaying"][1])
        /\ ~TitleAvailable =>
              /\ Len(media.out) = 3
              /\ media.out[1][1] = "contentId"
              /\ media.out[2] = <<"streamType", "LIVE">>
              /\ media.out[3] = <<"contentType", media.mime>>
        /\ Get(media.out, "streamType") = "LIVE"

C14_Witness ==
    /\ media.done
    /\ ~MetaHas("Title")
    /\ MetaHas("NowPlaying")
    /\ MetaHas("ESNowPlaying")
    /\ Get(MetadataBlock, "title") = "Radio"

\* a step that is a call of an operation putting no requestId on the wire
NoIdCalls == {"msgAuth", "msgPing", "msgPong", "msgConnect", "msgReceiverClose",
              "receive"}
DroppedVolume(c) ==
    /\ c.name = "msgPlayerSetVolume"
    /\ c.f_volume # NaN
    /\ (c.f_volume < 0 \/ c.f_volume > 10)

\* C15: msgAuth, msgPing, msgPong, msgConnect, msgReceiverClose, receive and a
\* msgPlayerSetVolume dropped for its volume leave both request-id counters
\* unchanged.
C15_CountersUntouched ==
    [][(call'.name \in NoIdCalls \/ (DroppedVolume(call') /\ pc' = "idle"))
          => (m_requestId' = m_requestId
              /\ m_receiver_requestId' = m_receiver_requestId)]_vars

C15_Witness ==
    /\ DroppedVolume(call)
    /\ pc = "idle"
    /\ call.destinationId # ""
    /\ call.mediaSessionId # 0
    /\ Len(mediaIds) >= 1
    /\ m_requestId = Len(mediaIds)

\* C16: when the constructor throws, the error names the step that failed and
\* neither live credentials nor an open session are left behind.
C16_CtorFailureReleases ==
    life.obj = "failed" =>
        /\ m_creds # "live"
        /\ m_tls # "open"
        /\ life.thrown = (CASE life.failedAt = "creds" -> "Failed to create TLS client"
                            [] life.failedAt = "session" -> "Failed to create client session"
                            [] life.failedAt = "address" -> "Cannot get local IP address")

RcvAccounting ==
    /\ rcv.i_received + rcv.i_size = rcv.i_size0
    /\ rcv.iov_base = rcv.i_received
    /\ rcv.iov_len = rcv.i_size
    /\ rcv.iov_base + rcv.iov_len <= rcv.i_size0
    /\ (rcv.returned /\ rcv.cause = "complete") => rcv.ret = rcv.i_size0

\* C18 as stated: accumulated plus requested is i_size, every read is for the
\* remaining bytes at the accumulated offset, a complete return is i_size and
\* a timeout return lies in 0 .. i_size - 1.
C18_AsStated ==
    call.name = "receive" =>
        /\ RcvAccounting
        /\ (rcv.returned /\ rcv.cause = "expired")
              => rcv.ret \in 0 .. (rcv.i_size0 - 1)

\* C18 (amended): as stated, but the timeout return lies in 0 .. i_size - 1
\* only for i_size > 0; a call with i_size = 0 that times out returns 0.
C18_Accounting ==
    call.name = "receive" =>
        /\ RcvAccounting
        /\ (rcv.returned /\ rcv.cause = "expired")
              => IF rcv.i_size0 > 0
                 THEN rcv.ret \in 0 .. (rcv.i_size0 - 1)
                 ELSE rcv.ret = 0

C18_Witness ==
    /\ ReceiveReturned
    /\ rcv.cause = "complete"
    /\ rcv.i_size0 = 2
    /\ rcv.iov_base = 2
    /\ rcv.waited >= 1

\* C19: no command builder and no receive call touches the session after
\* disconnect() has set it to NULL.
C19_NoUseAfterDisconnect ==
    ~(m_tls = "NULL" /\ pc = "crashed")

\* C20: with no explicit title and a title taken from "now playing" or
\* "elementary-stream now playing", an audio descriptor has metadataType 3 and
\* the title but no music-only field, whatever metadata is available; a
\* music-only field needs an audio MIME and the explicit title.
C20_NoMusicWithoutExplicitTitle ==
    media.done =>
        /\ \A f \in MusicFields :
              HasKey(MetadataBlock, f) => (BeginsWithAudio(media.mime) /\ MetaHas("Title"))
        /\ (BeginsWithAudio(media.mime) /\ ~MetaHas("Title")
               /\ (MetaHas("NowPlaying") \/ MetaHas("ESNowPlaying")))
              => /\ Get(MetadataBlock, "metadataType") = "3"
                 /\ HasKey(MetadataBlock, "title")
                 /\ \A f \in MusicFields : ~HasKey(MetadataBlock, f)

C20_Witness ==
    /\ media.done
    /\ media.mime = MimeAudio
    /\ ~MetaHas("Title")
    /\ MetaHas("ESNowPlaying")
    /\ MetaHas("Artist")
    /\ MetaHas("Album")
    /\ Get(MetadataBlock, "metadataType") = "3"
    /\ ~HasKey(MetadataBlock, "artist")

====
